---- MODULE Spec2Model ----
(***************************************************************************)
(* A model of the layer abstraction (src/layer.py) and of the sequential   *)
(* Model that drives it (src/model.py).                                    *)
(*                                                                         *)
(* Numbers are exact rationals <<n, d>> (d > 0, lowest terms): the code    *)
(* computes in floating point, the model in the exact arithmetic that the  *)
(* floating-point results approximate.  A tensor is a record               *)
(* [shape, data] with data the row-major (C order) list of its elements,   *)
(* as numpy stores it.  A raised exception is a record [exc |-> name].     *)
(*                                                                         *)
(* The interpreter's major version (python) decides what / and range do in *)
(* Model.fit.  The layers' arithmetic is Python 3's, where / is true       *)
(* division; Python 2 differs only where it floors a negative quotient     *)
(* that int() truncates (a 'valid' kernel larger than its input).          *)
(* utils.glorot_uniform, utils.pad_inputs and Conv_layer.init_cache are    *)
(* not in src: the first two follow spec.md section 6, the third is taken  *)
(* to return an empty cache and to change nothing else.                    *)
(***************************************************************************)
EXTENDS Integers, Sequences, FiniteSets, TLC

\* ------------------------------------------------------------ bounds
\* number of distinct states of numpy's global random generator
RngStates == 2
\* longest layer list a Model is given
MaxLayers == 2
\* rows beyond one full batch that fit is given
MaxExtra == 5
\* most rows of a tensor handed to a layer directly
MaxBatch == 2
\* most calls the driver makes on one layer or model
MaxCalls == 3
\* most copies of each row in the batch-averaging comparison
MaxDup == 3
\* most epochs of one fit call
MaxEpochs == 2
\* largest spatial size, kernel size and stride of the convolution sweep
MaxIn == 5
MaxKernel == 3
MaxStride == 2

\* ------------------------------------------------------------ numbers
Abs(n) == IF n < 0 THEN -n ELSE n

Min(a, b) == IF a < b THEN a ELSE b

Max(a, b) == IF a < b THEN b ELSE a

RECURSIVE GCD(_, _)
GCD(a, b) == IF b = 0 THEN a ELSE GCD(b, a % b)

Rat(n, d) ==
    LET s == IF d < 0 THEN -1 ELSE 1
        g == GCD(Abs(n), Abs(d))
    IN  IF n = 0 THEN <<0, 1>> ELSE <<(s * n) \div g, (s * d) \div g>>

RInt(n) == <<n, 1>>

\* a + b, over the least common denominator
RAdd(a, b) ==
    Rat(a[1] * (b[2] \div GCD(a[2], b[2])) + b[1] * (a[2] \div GCD(a[2], b[2])),
        (a[2] \div GCD(a[2], b[2])) * b[2])

RNeg(a) == <<-a[1], a[2]>>

RSub(a, b) == RAdd(a, RNeg(b))

\* a * b, the common factors cancelled before the products are taken
RMul(a, b) ==
    IF a[1] = 0 \/ b[1] = 0 THEN <<0, 1>>
    ELSE Rat((a[1] \div GCD(Abs(a[1]), b[2])) * (b[1] \div GCD(Abs(b[1]), a[2])),
             (a[2] \div GCD(Abs(b[1]), a[2])) * (b[2] \div GCD(Abs(a[1]), b[2])))

RDiv(a, b) == RMul(a, IF b[1] < 0 THEN <<-b[2], -b[1]>> ELSE <<b[2], b[1]>>)

\* Python's int(p / q) for q > 0: true division, then truncation toward zero
IntTrunc(p, q) == IF p >= 0 THEN p \div q ELSE -((-p) \div q)

\* ------------------------------------------------------------ exceptions
None == [none |-> TRUE]

Exc(name) == [exc |-> name]

IsExc(v) == "exc" \in DOMAIN v

IsNone(v) == "none" \in DOMAIN v

IsTensor(v) == "shape" \in DOMAIN v

\* ------------------------------------------------------------ tensors
RECURSIVE Prod(_)
Prod(s) == IF s = <<>> THEN 1 ELSE Head(s) * Prod(Tail(s))

RECURSIVE RavelFrom(_, _, _, _)
RavelFrom(idx, s, i, acc) ==
    IF i > Len(s) THEN acc ELSE RavelFrom(idx, s, i + 1, acc * s[i] + idx[i])

\* the row-major offset of the 0-based multi-index idx in a tensor of shape s
Ravel(idx, s) == RavelFrom(idx, s, 1, 0)

RECURSIVE Unravel(_, _)
\* the 0-based multi-index at row-major offset k in a tensor of shape s
Unravel(k, s) ==
    IF s = <<>> THEN <<>>
    ELSE Append(Unravel(k \div s[Len(s)], SubSeq(s, 1, Len(s) - 1)), k % s[Len(s)])

Tensor(shape, data) == [shape |-> shape, data |-> data]

Build(shape, F(_)) ==
    Tensor(shape,
           SubSeq([k \in 1..Prod(shape) |-> F(Unravel(k - 1, shape))],
                  1, Prod(shape)))

At(t, idx) == t.data[Ravel(idx, t.shape) + 1]

Zeros(shape) == Build(shape, LAMBDA idx : RInt(0))

Full(shape, n) == Build(shape, LAMBDA idx : RInt(n))

Reverse(s) == [i \in 1..Len(s) |-> s[Len(s) + 1 - i]]

Front(s, n) == SubSeq(s, 1, n)

Ones(n) == [i \in 1..n |-> 1]

\* numpy broadcasting of two shapes: aligned at the right, a dimension of 1
\* stretches; anything else that differs raises ValueError
BShape(s1, s2) ==
    LET n == Max(Len(s1), Len(s2))
        a == Ones(n - Len(s1)) \o s1
        b == Ones(n - Len(s2)) \o s2
    IN  IF \A i \in 1..n : a[i] = b[i] \/ a[i] = 1 \/ b[i] = 1
        THEN [i \in 1..n |-> IF a[i] = 1 THEN b[i] ELSE a[i]]
        ELSE <<-1>>

BOk(s1, s2) == BShape(s1, s2) # <<-1>>

\* the index into an operand of shape s that result index idx reads
BIdx(idx, s) ==
    LET off == Len(idx) - Len(s)
    IN  [i \in 1..Len(s) |-> IF s[i] = 1 THEN 0 ELSE idx[off + i]]

BinOp(A, B, Op(_, _)) ==
    IF IsExc(A) THEN A
    ELSE IF IsExc(B) THEN B
    ELSE IF ~BOk(A.shape, B.shape) THEN Exc("ValueError")
    ELSE Build(BShape(A.shape, B.shape),
               LAMBDA idx : Op(At(A, BIdx(idx, A.shape)),
                               At(B, BIdx(idx, B.shape))))

TAdd(A, B) == BinOp(A, B, RAdd)

TSub(A, B) == BinOp(A, B, RSub)

TMul(A, B) == BinOp(A, B, RMul)

Scale(r, A) ==
    IF IsExc(A) THEN A ELSE Build(A.shape, LAMBDA idx : RMul(r, At(A, idx)))

DivInt(A, m) ==
    IF IsExc(A) THEN A
    ELSE IF m = 0 THEN Exc("ZeroDivisionError")
    ELSE Build(A.shape, LAMBDA idx : RDiv(At(A, idx), RInt(m)))

\* an in-place  target op= value : the result must have the target's shape
InPlace(target, value, Op(_, _)) ==
    IF IsExc(value) THEN value
    ELSE IF BShape(target.shape, value.shape) # target.shape
         THEN Exc("ValueError")
    ELSE BinOp(target, value, Op)

\* A.T : the axes reversed
Transpose(A) == Build(Reverse(A.shape), LAMBDA idx : At(A, Reverse(idx)))

RECURSIVE SeqSum(_)
\* the sum of the rationals of the sequence q (exact, so in any grouping)
SeqSum(q) ==
    IF q = <<>> THEN RInt(0)
    ELSE IF Len(q) = 1 THEN q[1]
    ELSE RAdd(SeqSum(SubSeq(q, 1, Len(q) \div 2)),
              SeqSum(SubSeq(q, Len(q) \div 2 + 1, Len(q))))

\* the sum of F(m) for m in 0..n-1
RSum(n, F(_)) == SeqSum([m \in 1..n |-> F(m - 1)])

\* np.dot(A, B) for tensors of at least two dimensions: the sum over the last
\* axis of A and the second-to-last axis of B
Dot(A, B) ==
    IF IsExc(A) THEN A
    ELSE IF IsExc(B) THEN B
    ELSE
    LET ra == Len(A.shape)
        rb == Len(B.shape)
        inner == A.shape[ra]
        shape == Front(A.shape, ra - 1) \o Front(B.shape, rb - 2)
                     \o <<B.shape[rb]>>
    IN  IF inner # B.shape[rb - 1] THEN Exc("ValueError")
        ELSE Build(shape,
               LAMBDA idx :
                 RSum(inner,
                      LAMBDA m :
                        RMul(At(A, Front(idx, ra - 1) \o <<m>>),
                             At(B, SubSeq(idx, ra, ra + rb - 3)
                                     \o <<m, idx[Len(idx)]>>))))

\* np.sum(A, axis=0, keepdims=True)
SumAxis0(A) ==
    Build(<<1>> \o Tail(A.shape),
          LAMBDA idx : RSum(A.shape[1], LAMBDA m : At(A, <<m>> \o Tail(idx))))

\* A.reshape(shape): the same elements in the same order
Reshape(A, shape) ==
    IF IsExc(A) THEN A
    ELSE IF Prod(shape) # Prod(A.shape) THEN Exc("ValueError")
    ELSE Tensor(shape, A.data)

\* np.squeeze(A): the dimensions of size one removed
Squeeze(A) == Tensor(SelectSeq(A.shape, LAMBDA d : d # 1), A.data)

\* A[lo:hi] as Python normalises a slice of a length-n axis: a negative bound
\* counts from the end (and -0 is 0), both bounds are clipped to 0..n
SliceBound(b, n) == IF b < 0 THEN Max(b + n, 0) ELSE Min(b, n)

SliceLen(lo, hi, n) == Max(SliceBound(hi, n) - SliceBound(lo, n), 0)

\* ------------------------------------------------------------ random numbers
\* The k-th number (k = 0, 1, ...) that np.random.rand draws when the global
\* generator is in state rng: a value of [0, 1)
RandDraw(rng, k) == Rat((rng + k) % RngStates, RngStates)

\* the generator's state after n draws
RngAfter(rng, n) == (rng + n) % RngStates

\* np.random.rand(*shape) in generator state rng
RandTensor(shape, rng) == Build(shape, LAMBDA idx : RandDraw(rng, Ravel(idx, shape)))

\* what a method call leaves behind: the object, and the value returned or the
\* exception raised
Result(self, ret) == [self |-> self, ret |-> ret]

\* ------------------------------------------------------------ FC
FCInit(input_size, output_size, rng) ==
    [kind |-> "FC",
     weights |-> Scale(Rat(1, 10), RandTensor(<<input_size, output_size>>, rng)),
     bias |-> Scale(Rat(1, 10),
                    RandTensor(<<1, output_size>>,
                               RngAfter(rng, input_size * output_size))),
     input |-> None,
     output |-> None]

\* forward caching its input only when none is cached yet
FCForwardKeepFirst(self, input_data) ==
    LET s1 == IF IsNone(self.input) THEN [self EXCEPT !.input = input_data] ELSE self
        out == TAdd(Dot(input_data, s1.weights), s1.bias)
    IN  IF IsExc(out) THEN Result(s1, out)
        ELSE Result([s1 EXCEPT !.output = out], out)

\* FC.forward (lines 34-37)
FCForward(self, input_data) ==
    LET s1 == [self EXCEPT !.input = input_data]
        out == TAdd(Dot(s1.input, s1.weights), s1.bias)
    IN  IF IsExc(out) THEN Result(s1, out)
        ELSE Result([s1 EXCEPT !.output = out], out)

\* dW summed over the batch, not averaged
FCdWSummed(input, dY) == Dot(Transpose(input), dY)

\* dW of FC.backward
FCdW(input, dY) == DivInt(Dot(Transpose(input), dY), dY.shape[1])

\* dB of FC.backward
FCdB(dY) ==
    DivInt(Reshape(Squeeze(SumAxis0(dY)), <<1, dY.shape[2]>>), dY.shape[1])

\* the update of FC.backward (lines 47-49), given the gradients computed
FCUpdate(self, learning_rate, grad, dW, dB) ==
    IF IsExc(dW) THEN Result(self, dW)
    ELSE IF IsExc(dB) THEN Result(self, dB)
    ELSE IF BShape(self.weights.shape, dW.shape) # self.weights.shape
    THEN Result(self, Exc("ValueError"))
    ELSE IF BShape(self.bias.shape, dB.shape) # self.bias.shape
    THEN Result([self EXCEPT
                   !.weights = InPlace(self.weights, Scale(learning_rate, dW), RSub)],
                Exc("ValueError"))
    ELSE Result([self EXCEPT
                   !.weights = InPlace(self.weights, Scale(learning_rate, dW), RSub),
                   !.bias = InPlace(self.bias, Scale(learning_rate, dB), RSub)],
                grad)

\* FC.backward after grad is computed (lines 43-49)
FCGradients(self, dY, learning_rate, grad) ==
    IF IsExc(grad) THEN Result(self, grad)
    ELSE IF IsNone(self.input) THEN Result(self, Exc("AttributeError"))
    ELSE FCUpdate(self, learning_rate, grad, FCdW(self.input, dY), FCdB(dY))

FCBackward(self, dY, learning_rate) ==
    FCGradients(self, dY, learning_rate, Dot(dY, Transpose(self.weights)))

\* ------------------------------------------------------------ ActivationLayer
\* the activation functions a caller supplies, each with its derivative
Activations == {"identity", "relu"}

ActivationFn(name, x) ==
    IF name = "relu" THEN (IF x[1] > 0 THEN x ELSE RInt(0)) ELSE x

ActivationGradFn(name, x) ==
    IF name = "relu" THEN (IF x[1] > 0 THEN RInt(1) ELSE RInt(0)) ELSE RInt(1)

ActivationInit(activation) ==
    [kind |-> "Activation", activation |-> activation,
     input |-> None, output |-> None]

ActivationForward(self, input_data) ==
    LET out == Build(input_data.shape,
                     LAMBDA idx : ActivationFn(self.activation, At(input_data, idx)))
    IN  Result([self EXCEPT !.input = input_data, !.output = out], out)

ActivationBackward(self, dY, learning_rate) ==
    IF IsNone(self.input) THEN Result(self, Exc("AttributeError"))
    ELSE Result(self,
           TMul(Build(self.input.shape,
                      LAMBDA idx :
                        ActivationGradFn(self.activation, At(self.input, idx))),
                dY))

\* ------------------------------------------------------------ Flatten
FlattenInit == [kind |-> "Flatten", input |-> None]

FlattenForward(self, X) ==
    Result([self EXCEPT !.input = X],
           Reshape(X, <<X.shape[1], Prod(Tail(X.shape))>>))

FlattenBackward(self, dY, learning_rate) ==
    IF IsNone(self.input) THEN Result(self, Exc("AttributeError"))
    ELSE Result(self, Reshape(dY, self.input.shape))

\* ------------------------------------------------------------ utils
\* utils.glorot_uniform(shape) in generator state rng: (W, b), W of the given
\* shape and b of shape (1, 1, 1, filters), drawn uniformly from an interval
\* around zero
GlorotValue(rng, k) == RSub(RMul(RInt(2), RandDraw(rng, k)), RInt(1))

glorot_uniform(shape, rng) ==
    [W |-> Build(shape, LAMBDA idx : GlorotValue(rng, Ravel(idx, shape))),
     b |-> Build(<<1, 1, 1, shape[4]>>,
                 LAMBDA idx : GlorotValue(rng, Prod(shape) + idx[4])),
     rng |-> RngAfter(rng, Prod(shape) + shape[4])]

\* utils.pad_inputs(X, (pad_h, pad_w)): a copy of X with pad_h rows of zeros
\* above and below and pad_w columns of zeros left and right
pad_inputs(X, pad) ==
    Build(<<X.shape[1], X.shape[2] + 2 * pad[1], X.shape[3] + 2 * pad[2], X.shape[4]>>,
          LAMBDA idx :
            IF /\ idx[2] >= pad[1] /\ idx[2] < pad[1] + X.shape[2]
               /\ idx[3] >= pad[2] /\ idx[3] < pad[2] + X.shape[3]
            THEN At(X, <<idx[1], idx[2] - pad[1], idx[3] - pad[2], idx[4]>>)
            ELSE RInt(0))

\* ------------------------------------------------------------ Conv_layer
ConvInit(filters, kernel_shape, padding, stride) ==
    [kind |-> "Conv", stride |-> stride, kernel_shape |-> kernel_shape,
     padding |-> padding, filters |-> filters,
     W |-> None, b |-> None, pad_h |-> None, pad_w |-> None, A |-> None,
     grads |-> None, dW |-> None, db |-> None]

\* W[:, :, :, c]
Filter(W, c) == Build(Front(W.shape, 3), LAMBDA idx : At(W, idx \o <<c>>))

\* the shape of x[r0:r1, c0:c1, :] for x of shape xs
SliceShape(xs, r0, r1, c0, c1) ==
    <<SliceLen(r0, r1, xs[1]), SliceLen(c0, c1, xs[2]), xs[3]>>

\* X[i][r0:r1, c0:c1, :] of a 4-dimensional tensor
Window(X, i, r0, r1, c0, c1) ==
    Build(SliceShape(Tail(X.shape), r0, r1, c0, c1),
          LAMBDA idx : At(X, <<i, idx[1] + SliceBound(r0, X.shape[2]),
                                idx[2] + SliceBound(c0, X.shape[3]), idx[3]>>))

\* np.sum(np.multiply(input, W)) + float(b)
conv_single_step(input, W, b) ==
    LET p == TMul(input, W)
    IN  IF IsExc(p) THEN p ELSE RAdd(SeqSum(p.data), b)

\* pad of Conv_layer.forward for one spatial axis (/ is true division)
SamePad(prev, stride, filter_shape) ==
    IntTrunc((prev - 1) * stride + filter_shape - prev, 2)

\* n_H (n_W) of Conv_layer.forward for one spatial axis (/ is true division)
ConvOutDim(padding, prev, stride, filter_shape) ==
    IF padding = "same" THEN prev
    ELSE IntTrunc(prev - filter_shape, stride) + 1

ConvPad(padding, prev, stride, filter_shape) ==
    IF padding = "same" THEN SamePad(prev, stride, filter_shape) ELSE 0

\* the windows [vert_start, vert_end) x [horiz_start, horiz_end) that the
\* loops of forward read, one per output position
Windows(n_H, n_W, stride, fh, fw) ==
    {<<stride * h, stride * h + fh, stride * w, stride * w + fw>> :
        h \in 0..(n_H - 1), w \in 0..(n_W - 1)}

\* Z[i, h, w, c] of forward
ConvCell(X_pad, W, b, stride, fh, fw, idx) ==
    conv_single_step(
        Window(X_pad, idx[1],
               stride * idx[2], stride * idx[2] + fh,
               stride * idx[3], stride * idx[3] + fw),
        Filter(W, idx[4]),
        At(b, <<0, 0, 0, idx[4]>>))

\* the sliding-window loops of forward (lines 131-151) on the padded input
ConvWindows(self, X, X_pad, n_H, n_W, rng) ==
    IF \E win \in Windows(n_H, n_W, self.stride, self.kernel_shape[1],
                          self.kernel_shape[2]) :
          /\ X.shape[1] > 0 /\ self.filters > 0
          /\ ~BOk(SliceShape(Tail(X_pad.shape), win[1], win[2], win[3], win[4]),
                  Front(self.W.shape, 3))
    THEN [self |-> self, ret |-> Exc("ValueError"), rng |-> rng]
    ELSE [self |-> [self EXCEPT !.A = X],
          ret |-> Build(<<X.shape[1], n_H, n_W, self.filters>>,
                        LAMBDA idx :
                          ConvCell(X_pad, self.W, self.b, self.stride,
                                   self.kernel_shape[1], self.kernel_shape[2], idx)),
          rng |-> rng]

\* forward from the padding arithmetic on (lines 119-151), self holding the
\* weights just initialised
ConvGeometry(self, X, pad_h, pad_w, n_H, n_W, rng) ==
    IF n_H < 0 \/ n_W < 0
    THEN [self |-> self, ret |-> Exc("ValueError"), rng |-> rng]
    ELSE ConvWindows([self EXCEPT !.pad_h = pad_h, !.pad_w = pad_w], X,
                     pad_inputs(X, <<pad_h, pad_w>>), n_H, n_W, rng)

\* forward initialising W and b only when the layer has none yet
ConvInitialisedOnce(self, X, init) ==
    ConvGeometry(IF IsNone(self.W) THEN [self EXCEPT !.W = init.W, !.b = init.b]
                 ELSE self,
                 X,
                 ConvPad(self.padding, X.shape[2], self.stride, self.kernel_shape[1]),
                 ConvPad(self.padding, X.shape[3], self.stride, self.kernel_shape[2]),
                 ConvOutDim(self.padding, X.shape[2], self.stride, self.kernel_shape[1]),
                 ConvOutDim(self.padding, X.shape[3], self.stride, self.kernel_shape[2]),
                 init.rng)

\* forward once the initializer has returned init (lines 117-151)
ConvInitialised(self, X, init) ==
    ConvGeometry([self EXCEPT !.W = init.W, !.b = init.b], X,
                 ConvPad(self.padding, X.shape[2], self.stride, self.kernel_shape[1]),
                 ConvPad(self.padding, X.shape[3], self.stride, self.kernel_shape[2]),
                 ConvOutDim(self.padding, X.shape[2], self.stride, self.kernel_shape[1]),
                 ConvOutDim(self.padding, X.shape[3], self.stride, self.kernel_shape[2]),
                 init.rng)

ConvForward(self, X, rng) ==
    IF Len(X.shape) # 4 THEN [self |-> self, ret |-> Exc("ValueError"), rng |-> rng]
    ELSE ConvInitialised(self, X,
           glorot_uniform(<<self.kernel_shape[1], self.kernel_shape[2], X.shape[4],
                            self.filters>>, rng))

\* self.init_cache(): the (empty) per-call gradient cache kept in self.grads
init_cache == [cache |-> "empty"]

RECURSIVE AddAtFrom(_, _, _, _, _, _)
\* data with the elements k.. of v added at their places in t[i, r0:, c0:, :]
AddAtFrom(data, shape, i, r0, c0, v) ==
    IF v.data = <<>> THEN data
    ELSE AddAtFrom([data EXCEPT
                      ![Ravel(<<i, r0 + v.at[1], c0 + v.at[2], v.at[3]>>, shape) + 1] =
                          RAdd(@, Head(v.data))],
                   shape, i, r0, c0,
                   [v EXCEPT !.data = Tail(@),
                             !.at = Unravel(Ravel(@, v.shape) + 1, v.shape)])

\* t with  t[i, r0:r1, c0:c1, :] += v  done, v already of the slice's shape
AddAt(t, i, r0, c0, v) ==
    Tensor(t.shape,
           AddAtFrom(t.data, t.shape, i, r0, c0,
                     [shape |-> v.shape, data |-> v.data, at |-> <<0, 0, 0>>]))

\* t with  t[:, :, :, c] += v  done, v already of shape t.shape[:3]
AddFilter(t, c, v) ==
    Build(t.shape,
          LAMBDA idx : IF idx[4] = c THEN RAdd(At(t, idx), At(v, Front(idx, 3)))
                       ELSE At(t, idx))

\* t with  t[i, :, :, :] = v  done, v broadcast to t.shape[1:]
SetSample(t, i, v) ==
    Build(t.shape,
          LAMBDA idx : IF idx[1] = i THEN At(v, BIdx(Tail(idx), v.shape))
                       ELSE At(t, idx))

\* v broadcast to shape
BroadcastTo(v, shape) == Build(shape, LAMBDA idx : At(v, BIdx(idx, v.shape)))

\* whether dY[i, h, w, c] is an element of dY
HasIndex(dY, i, h, w, c) ==
    /\ Len(dY.shape) = 4
    /\ i < dY.shape[1] /\ h < dY.shape[2] /\ w < dY.shape[3] /\ c < dY.shape[4]

\* da_pad[pad_h:-pad_h, pad_w:-pad_w, :] of the gradient of sample i
Crop(dA_pad, i, pad_h, pad_w) ==
    Window(dA_pad, i, pad_h, -pad_h, pad_w, -pad_w)

\* lines 190-192 for one (i, h, w, c): the three accumulations, a_slice being
\* the input window and g the element dY[i, h, w, c]
ConvAccumulate(L, i, c, vert_start, horiz_start, a_slice, dwin, gwin, g) ==
    IF BShape(a_slice.shape, dwin.shape) # a_slice.shape
    THEN [L EXCEPT !.exc = Exc("ValueError")]
    ELSE IF BShape(Front(L.dW.shape, 3), gwin.shape) # Front(L.dW.shape, 3)
    THEN [L EXCEPT !.exc = Exc("ValueError"),
                   !.dA_pad = AddAt(L.dA_pad, i, vert_start, horiz_start,
                                    BroadcastTo(dwin, a_slice.shape))]
    ELSE [L EXCEPT
            !.dA_pad = AddAt(L.dA_pad, i, vert_start, horiz_start,
                             BroadcastTo(dwin, a_slice.shape)),
            !.dW = AddFilter(L.dW, c, BroadcastTo(gwin, Front(L.dW.shape, 3))),
            !.db = AddFilter(L.db, c, g)]

\* the window and gradient element of one (i, h, w, c) (lines 188-192)
ConvWindow(L, cx, i, c, vert_start, horiz_start, a_slice, g) ==
    ConvAccumulate(L, i, c, vert_start, horiz_start, a_slice,
                   TMul(Filter(L.W, c), g), TMul(a_slice, g), g)

\* one iteration of the innermost loop of backward (lines 182-192) on the
\* loop state L
ConvBackwardCell(L, cx, i, h, w, c) ==
    IF ~HasIndex(cx.dY, i, h, w, c) THEN [L EXCEPT !.exc = Exc("IndexError")]
    ELSE ConvWindow(L, cx, i, c, cx.stride * h, cx.stride * w,
                    Window(cx.A_pad, i, cx.stride * h, cx.stride * h + cx.fh,
                           cx.stride * w, cx.stride * w + cx.fw),
                    Tensor(<<1, 1, 1>>, <<At(cx.dY, <<i, h, w, c>>)>>))

\* line 193 and lines 195-196, crop being da_pad[pad_h:-pad_h, pad_w:-pad_w, :]
ConvCropUpdate(L, cx, i, crop) ==
    IF BShape(Tail(L.dA.shape), crop.shape) # Tail(L.dA.shape)
    THEN [L EXCEPT !.exc = Exc("ValueError")]
    ELSE [L EXCEPT
            !.dA = SetSample(L.dA, i, crop),
            !.W = TSub(L.W, Scale(cx.learning_rate, L.dW)),
            !.b = TSub(L.b, Scale(cx.learning_rate, L.db)),
            !.updates = L.updates + 1]

\* the end of one sample's iteration (lines 193-196): the crop, then the update
ConvBackwardSampleEnd(L, cx, i) ==
    ConvCropUpdate(L, cx, i, Crop(L.dA_pad, i, cx.pad_h, cx.pad_w))

\* step k of the loops of backward, in the order the code runs them
ConvBackwardStep(L, cx, k) ==
    LET cells == cx.prev_height * cx.prev_width * cx.filters
        i == k \div (cells + 1)
        r == k % (cells + 1)
    IN  IF r = cells THEN ConvBackwardSampleEnd(L, cx, i)
        ELSE ConvBackwardCell(L, cx, i,
                              r \div (cx.prev_width * cx.filters),
                              (r \div cx.filters) % cx.prev_width,
                              r % cx.filters)

RECURSIVE ConvBackwardLoop(_, _, _, _)
ConvBackwardLoop(L, cx, k, n) ==
    IF k = n \/ ~IsNone(L.exc) THEN L
    ELSE ConvBackwardLoop(ConvBackwardStep(L, cx, k), cx, k + 1, n)

\* what backward leaves behind when its loops end in loop state L
ConvBackwardEnd(self, L) ==
    [self |-> [self EXCEPT !.grads = init_cache, !.dW = L.dW, !.db = L.db,
                           !.W = L.W, !.b = L.b],
     ret |-> IF IsNone(L.exc) THEN L.dA ELSE L.exc,
     updates |-> L.updates]

\* the result of Conv_layer.backward, with the number of parameter updates made
ConvBackward(self, dY, learning_rate) ==
    IF IsNone(self.A)
    THEN [self |-> self, ret |-> Exc("AttributeError"), updates |-> 0]
    ELSE ConvBackwardEnd(self,
           ConvBackwardLoop(
             [W |-> self.W, b |-> self.b,
              dW |-> Zeros(self.W.shape), db |-> Zeros(self.b.shape),
              dA_pad |-> pad_inputs(Zeros(self.A.shape), <<self.pad_h, self.pad_w>>),
              dA |-> Zeros(self.A.shape), exc |-> None, updates |-> 0],
             [A_pad |-> pad_inputs(self.A, <<self.pad_h, self.pad_w>>),
              dY |-> dY, learning_rate |-> learning_rate,
              stride |-> self.stride,
              fh |-> self.kernel_shape[1], fw |-> self.kernel_shape[2],
              pad_h |-> self.pad_h, pad_w |-> self.pad_w,
              prev_height |-> self.A.shape[2], prev_width |-> self.A.shape[3],
              filters |-> self.filters],
             0,
             self.A.shape[1] * (self.A.shape[2] * self.A.shape[3] * self.filters + 1)))

\* ------------------------------------------------------------ layer dispatch
\* the result r of a method that draws no random number, the generator as it was
KeepRng(r, rng) == [self |-> r.self, ret |-> r.ret, rng |-> rng]

\* the result r of a backward that updates no parameter in a loop
NoUpdates(r) == [self |-> r.self, ret |-> r.ret, updates |-> 0]

\* layer.forward(X) for whichever class layer is, in generator state rng
LayerForward(layer, X, rng) ==
    CASE layer.kind = "FC" -> KeepRng(FCForward(layer, X), rng)
      [] layer.kind = "Activation" -> KeepRng(ActivationForward(layer, X), rng)
      [] layer.kind = "Flatten" -> KeepRng(FlattenForward(layer, X), rng)
      [] layer.kind = "Conv" -> ConvForward(layer, X, rng)

\* layer.backward(dY, learning_rate) for whichever class layer is
LayerBackward(layer, dY, learning_rate) ==
    CASE layer.kind = "FC" -> NoUpdates(FCBackward(layer, dY, learning_rate))
      [] layer.kind = "Activation" ->
            NoUpdates(ActivationBackward(layer, dY, learning_rate))
      [] layer.kind = "Flatten" -> NoUpdates(FlattenBackward(layer, dY, learning_rate))
      [] layer.kind = "Conv" -> ConvBackward(layer, dY, learning_rate)

\* ------------------------------------------------------------ loss functions
\* The pairs (loss, loss_prime) a caller hands to Model.use:
\*   "mse"      mean((Y - P)^2)    and  2 (P - Y) / size
\*   "half_sse" sum((Y - P)^2) / 2 and  P - Y
Losses == {"mse", "half_sse"}

Loss(name, Y, P) ==
    LET d == TSub(Y, P)
        sq == SeqSum(TMul(d, d).data)
    IN  IF IsExc(d) THEN d
        ELSE IF name = "mse" THEN [value |-> RDiv(sq, RInt(Prod(d.shape)))]
        ELSE [value |-> RDiv(sq, RInt(2))]

LossPrime(name, Y, P) ==
    LET d == TSub(P, Y)
    IN  IF IsExc(d) THEN d
        ELSE IF name = "mse" THEN Scale(Rat(2, Prod(Y.shape)), d)
        ELSE d

\* ------------------------------------------------------------ Model
\* one layer call as the call log records it
Call(op, k, arg, ret) == [op |-> op, layer |-> k, arg |-> arg, ret |-> ret]

RECURSIVE ForwardPass(_, _, _, _, _)
\* one step of the forward loop: layer k has returned r
ForwardStep(ls, k, X, log, r) ==
    IF IsExc(r.ret)
    THEN [layers |-> [ls EXCEPT ![k] = r.self], X |-> r.ret, rng |-> r.rng,
          log |-> Append(log, Call("forward", k, X, r.ret))]
    ELSE ForwardPass([ls EXCEPT ![k] = r.self], k + 1, r.ret, r.rng,
                     Append(log, Call("forward", k, X, r.ret)))

\* for layer in self.layers: X = layer.forward(X), from layer k on
ForwardPass(ls, k, X, rng, log) ==
    IF k > Len(ls) THEN [layers |-> ls, X |-> X, rng |-> rng, log |-> log]
    ELSE ForwardStep(ls, k, X, log, LayerForward(ls[k], X, rng))

RECURSIVE BackwardPass(_, _, _, _, _)
\* one step of the backward loop: layer k has returned r
BackwardStep(ls, k, error, learning_rate, log, r) ==
    IF IsExc(r.ret)
    THEN [layers |-> [ls EXCEPT ![k] = r.self], error |-> r.ret,
          log |-> Append(log, Call("backward", k, error, r.ret))]
    ELSE BackwardPass([ls EXCEPT ![k] = r.self], k - 1, r.ret, learning_rate,
                      Append(log, Call("backward", k, error, r.ret)))

\* for layer in reversed(self.layers): error = layer.backward(error, lr),
\* from layer k down
BackwardPass(ls, k, error, learning_rate, log) ==
    IF k < 1 THEN [layers |-> ls, error |-> error, log |-> log]
    ELSE BackwardStep(ls, k, error, learning_rate, log,
                      LayerBackward(ls[k], error, learning_rate))

\* the end of train: the backward loop has returned b
TrainEnd(m, rng, b) ==
    [model |-> [m EXCEPT !.layers = b.layers], rng |-> rng, log |-> b.log,
     exc |-> IF IsExc(b.error) THEN b.error ELSE None]

\* train with the backward loop leaving out the last layer
TrainBackwardSkipLast(m, learning_rate, rng, log, error) ==
    IF IsExc(error) THEN [model |-> m, rng |-> rng, log |-> log, exc |-> error]
    ELSE TrainEnd(m, rng,
                  BackwardPass(m.layers, Len(m.layers) - 1, error, learning_rate, log))

\* train from line 43 on: error = self.loss_prime(Y, X), then the backward loop
TrainBackward(m, learning_rate, rng, log, error) ==
    IF IsExc(error) THEN [model |-> m, rng |-> rng, log |-> log, exc |-> error]
    ELSE TrainEnd(m, rng,
                  BackwardPass(m.layers, Len(m.layers), error, learning_rate, log))

\* train from line 40 on: l is what self.loss(Y, X) returned or raised
TrainLoss(m, Y, learning_rate, f, l) ==
    IF IsExc(l) THEN [model |-> m, rng |-> f.rng, log |-> f.log, exc |-> l]
    ELSE TrainBackward([m EXCEPT !.err = RAdd(m.err, l.value)], learning_rate,
                       f.rng, f.log, LossPrime(m.loss.name, Y, f.X))

\* train after the forward loop has returned f
TrainForward(m, Y, learning_rate, f) ==
    IF IsExc(f.X)
    THEN [model |-> [m EXCEPT !.layers = f.layers], rng |-> f.rng, log |-> f.log,
          exc |-> f.X]
    ELSE TrainLoss([m EXCEPT !.layers = f.layers], Y, learning_rate, f,
                   IF IsNone(m.loss) THEN Exc("TypeError")
                   ELSE Loss(m.loss.name, Y, f.X))

\* Model.train(X, Y, learning_rate) on the model m, in generator state rng: the
\* model and generator afterwards, the layer calls made in order, and the
\* exception that ended the call, if any
ModelTrain(m, X, Y, learning_rate, rng) ==
    TrainForward(m, Y, learning_rate, ForwardPass(m.layers, 1, X, rng, <<>>))

\* the Model just constructed
ModelInit(training_method) ==
    [training_method |-> training_method, layers |-> <<>>, err |-> RInt(0),
     loss |-> None]

\* Model.add(layer)
ModelAdd(m, layer) == [m EXCEPT !.layers = Append(m.layers, layer)]

\* Model.use(loss, loss_prime)
ModelUse(m, loss) == [m EXCEPT !.loss = [name |-> loss]]

\* batch_size of Model.fit
batch_size == 100

\* t[lo:hi, :] reshaped to (hi - lo, ...): rows lo..hi-1
Rows(t, lo, hi) ==
    LET w == Prod(Tail(t.shape))
    IN  Tensor(<<hi - lo>> \o Tail(t.shape), SubSeq(t.data, lo * w + 1, hi * w))

\* num_of_batches = max(1, samples/batch_size), as the interpreter computes it:
\* Python 3 divides truly, so the quotient is a float and max returns it when it
\* exceeds 1; Python 2 divides two ints with floor
NumOfBatches(samples, python) ==
    IF python = 3
    THEN (IF samples > batch_size
          THEN [isint |-> FALSE, value |-> Rat(samples, batch_size)]
          ELSE [isint |-> TRUE, value |-> 1])
    ELSE [isint |-> TRUE, value |-> Max(1, samples \div batch_size)]

\* the index ranges [begin_index, end_index) one epoch hands to train, in order
EpochRanges(training_method, samples, python) ==
    IF training_method = "online" THEN [j \in 1..samples |-> <<j - 1, j>>]
    ELSE IF training_method = "batch"
    THEN [j \in 1..NumOfBatches(samples, python).value |->
            <<(j - 1) * batch_size, Min(samples, (j - 1) * batch_size + batch_size)>>]
    ELSE <<>>

RECURSIVE FitLoop(_, _, _, _, _)
\* one train call of the loop: range r of epoch i has been trained with result t
FitStep(F, cx, i, k, r, t) ==
    FitLoop([model |-> t.model, rng |-> t.rng,
             ranges |-> Append(F.ranges, <<i, r[1], r[2]>>), exc |-> t.exc],
            cx, i, k + 1, "started")

\* the training loop of fit from position k of epoch i on the state
\* F = [model, rng, ranges, exc]
FitLoop(F, cx, i, k, todo) ==
    IF i >= cx.epochs \/ ~IsNone(F.exc) THEN F
    ELSE IF k = 0 /\ cx.training_method = "batch"
            /\ ~NumOfBatches(cx.samples, cx.python).isint
    THEN [F EXCEPT !.model.err = RInt(0), !.exc = Exc("TypeError")]
    ELSE IF k = 0 /\ todo # "started"
    THEN FitLoop([F EXCEPT !.model.err = RInt(0)], cx, i, 0, "started")
    ELSE IF k >= Len(cx.ranges)
    THEN FitLoop([F EXCEPT !.model.err = RDiv(F.model.err, RInt(cx.samples))],
                 cx, i + 1, 0, "new")
    ELSE FitStep(F, cx, i, k, cx.ranges[k + 1],
                 ModelTrain(F.model,
                            Rows(cx.x_train, cx.ranges[k + 1][1], cx.ranges[k + 1][2]),
                            Rows(cx.y_train, cx.ranges[k + 1][1], cx.ranges[k + 1][2]),
                            cx.learning_rate, F.rng))

\* Model.fit(x_train, y_train, epochs, learning_rate)
ModelFit(m, x_train, y_train, epochs, learning_rate, rng, python) ==
    FitLoop([model |-> m, rng |-> rng, ranges |-> <<>>, exc |-> None],
            [training_method |-> m.training_method, x_train |-> x_train,
             y_train |-> y_train, epochs |-> epochs,
             learning_rate |-> learning_rate, samples |-> x_train.shape[1],
             python |-> python,
             ranges |-> IF m.training_method = "batch"
                           /\ ~NumOfBatches(x_train.shape[1], python).isint
                        THEN <<>>
                        ELSE EpochRanges(m.training_method, x_train.shape[1], python)],
            0, 0, "new")

\* ------------------------------------------------------------ the program
VARIABLES
    model,      \* the Model object: training_method, layers, err, loss
    rng,        \* the state of numpy's global random generator
    python,     \* the major version of the interpreter that runs the program
    inputs,     \* the tensors the driver holds
    hist        \* the calls the driver has made so far, oldest first

vars == <<model, rng, python, inputs, hist>>

\* a tensor of the given shape with entries among -1, 0, 1
Pattern(shape, seed) ==
    Build(shape, LAMBDA idx : RInt(((Ravel(idx, shape) + seed) % 3) - 1))

\* the layer a constructor call c builds in generator state r, and the state
\* it leaves the generator in
Construct(c, r) ==
    IF c.kind = "FC"
    THEN [layer |-> FCInit(c.input_size, c.output_size, r),
          rng |-> RngAfter(r, c.input_size * c.output_size + c.output_size)]
    ELSE IF c.kind = "Activation"
    THEN [layer |-> ActivationInit(c.activation), rng |-> r]
    ELSE IF c.kind = "Flatten" THEN [layer |-> FlattenInit, rng |-> r]
    ELSE [layer |-> ConvInit(c.filters, c.kernel_shape, c.padding, c.stride),
          rng |-> r]

\* model.add(<a newly constructed layer>), before the first call on the model;
\* ins are the tensors the driver holds from then on
Add(c, most, ins) ==
    /\ hist = <<>>
    /\ Len(model.layers) < most
    /\ model' = ModelAdd(model, Construct(c, rng).layer)
    /\ rng' = Construct(c, rng).rng
    /\ inputs' = ins
    /\ UNCHANGED <<python, hist>>

\* model.use(loss, loss_prime)
Use(loss) ==
    /\ hist = <<>>
    /\ IsNone(model.loss)
    /\ model' = ModelUse(model, loss)
    /\ UNCHANGED <<rng, python, inputs, hist>>

\* the driver's record of a direct call on layer k that left r behind
Direct(op, k, arg, learning_rate, r) ==
    [op |-> op, layer |-> k, arg |-> arg, learning_rate |-> learning_rate,
     ret |-> r.ret, rng |-> rng, pre |-> model.layers[k], post |-> r.self,
     updates |-> IF op = "backward" THEN r.updates ELSE 0]

ForwardDone(k, X, r) ==
    /\ model' = [model EXCEPT !.layers[k] = r.self]
    /\ rng' = r.rng
    /\ hist' = Append(hist, Direct("forward", k, X, RInt(0), r))

\* model.layers[k].forward(X), called directly
Forward(k, X, most) ==
    /\ Len(hist) < most
    /\ k \in 1..Len(model.layers)
    /\ ForwardDone(k, X, LayerForward(model.layers[k], X, rng))
    /\ UNCHANGED <<python, inputs>>

BackwardDone(k, dY, learning_rate, r) ==
    /\ model' = [model EXCEPT !.layers[k] = r.self]
    /\ hist' = Append(hist, Direct("backward", k, dY, learning_rate, r))

\* model.layers[k].backward(dY, learning_rate), called directly
Backward(k, dY, learning_rate, most) ==
    /\ Len(hist) < most
    /\ k \in 1..Len(model.layers)
    /\ BackwardDone(k, dY, learning_rate,
                    LayerBackward(model.layers[k], dY, learning_rate))
    /\ UNCHANGED <<rng, python, inputs>>

TrainDone(X, Y, t) ==
    /\ model' = t.model
    /\ rng' = t.rng
    /\ hist' = Append(hist, [op |-> "train", X |-> X, Y |-> Y, log |-> t.log,
                             exc |-> t.exc, n |-> Len(model.layers),
                             loss |-> model.loss])

\* model.train(X, Y, learning_rate)
Train(X, Y, learning_rate, most) ==
    /\ Len(hist) < most
    /\ TrainDone(X, Y, ModelTrain(model, X, Y, learning_rate, rng))
    /\ UNCHANGED <<python, inputs>>

FitDone(x_train, epochs, f) ==
    /\ model' = f.model
    /\ rng' = f.rng
    /\ hist' = Append(hist, [op |-> "fit", samples |-> x_train.shape[1],
                             epochs |-> epochs, ranges |-> f.ranges,
                             exc |-> f.exc])

\* model.fit(x_train, y_train, epochs, learning_rate)
Fit(x_train, y_train, epochs, learning_rate, most) ==
    /\ Len(hist) < most
    /\ FitDone(x_train, epochs,
               ModelFit(model, x_train, y_train, epochs, learning_rate, rng, python))
    /\ UNCHANGED <<python, inputs>>

\* ------------------------------------------------------------ direct layer calls
\* the learning rate of the direct backward calls
LearningRate == Rat(1, 2)

\* the constructor calls of the layers under direct test
LayerCtors ==
    {[kind |-> "FC", input_size |-> 2, output_size |-> o] : o \in 1..2}
    \cup {[kind |-> "Activation", activation |-> a] : a \in Activations}
    \cup {[kind |-> "Flatten"]}
    \cup {[kind |-> "Conv", filters |-> 1, kernel_shape |-> <<3, 3>>,
            padding |-> "same", stride |-> 1],
          [kind |-> "Conv", filters |-> 1, kernel_shape |-> <<1, 1>>,
            padding |-> "valid", stride |-> 1]}

\* the shapes of the tensors a layer built by c is called with
LayerShapes(c) ==
    CASE c.kind = "FC" -> {<<m, 2>> : m \in 1..MaxBatch}
      [] c.kind = "Conv" -> {<<m, 3, 3, 1>> : m \in 1..MaxBatch}
      [] OTHER -> {<<m, 2>> : m \in 1..MaxBatch}
                  \cup {<<m, 2, 2, 1>> : m \in 1..MaxBatch}

\* the two input tensors of shape sh the driver holds
TwoInputs(sh) == [X1 |-> Pattern(sh, 0), X2 |-> Pattern(sh, 1)]

\* the most recent forward call of hist that returned a tensor, or None
RECURSIVE LastForward(_)
LastForward(h) ==
    IF h = <<>> THEN None
    ELSE IF h[Len(h)].op = "forward" /\ IsTensor(h[Len(h)].ret) THEN h[Len(h)]
    ELSE LastForward(Front(h, Len(h) - 1))

\* the output gradient the driver passes: one of the shape of the last forward
\* output, and before any forward call has returned a single number
Gradients(h) ==
    IF IsNone(LastForward(h)) THEN {Pattern(<<1, 1>>, 2)}
    ELSE {Pattern(LastForward(h).ret.shape, 2)}

InitLayer ==
    /\ model = ModelInit("online")
    /\ rng \in 0..(RngStates - 1)
    /\ python = 3
    /\ inputs = None
    /\ hist = <<>>

AddLayer == \E c \in LayerCtors : \E sh \in LayerShapes(c) : Add(c, 1, TwoInputs(sh))

CallForward ==
    /\ model.layers # <<>>
    /\ \E X \in {inputs.X1, inputs.X2} : Forward(1, X, MaxCalls)

CallBackward == \E dY \in Gradients(hist) : Backward(1, dY, LearningRate, MaxCalls)

NextLayer == AddLayer \/ CallForward \/ CallBackward

SpecLayer == InitLayer /\ [][NextLayer]_vars

\* ------------------------------------------------------------ properties
\* the class of the layer the call e was made on
KindOf(e) == e.pre.kind

\* whether X is an input that layer accepts: of the rank and width its class
\* works on, and for a convolution no smaller than the kernel
ValidInput(layer, X) ==
    CASE layer.kind = "FC" ->
           Len(X.shape) = 2 /\ X.shape[2] = layer.weights.shape[1]
      [] layer.kind = "Conv" ->
           /\ Len(X.shape) = 4
           /\ X.shape[2] >= layer.kernel_shape[1]
           /\ X.shape[3] >= layer.kernel_shape[2]
      [] OTHER -> TRUE

\* whether call j of hist is a backward call that directly follows a forward
\* call on a valid input, with an output gradient shaped like that forward's output
PairedBackward(j) ==
    /\ j \in 2..Len(hist)
    /\ hist[j].op = "backward"
    /\ hist[j - 1].op = "forward"
    /\ ValidInput(hist[j - 1].pre, hist[j - 1].arg)
    /\ IsTensor(hist[j - 1].ret)
    /\ hist[j].arg.shape = hist[j - 1].ret.shape

\* C2: for every layer class, a backward call that follows forward(X) on a
\* valid X, with dY shaped like forward's output, returns a tensor of X's shape.
GradientShapeSymmetry ==
    \A j \in 1..Len(hist) :
        PairedBackward(j) =>
            /\ IsTensor(hist[j].ret)
            /\ hist[j].ret.shape = hist[j - 1].arg.shape

\* C2 restricted to the classes without a sliding window: FC, ActivationLayer
\* and Flatten keep the gradient's shape equal to the input's
GradientShapeSymmetryDense ==
    \A j \in 1..Len(hist) :
        PairedBackward(j) /\ KindOf(hist[j]) # "Conv" =>
            /\ IsTensor(hist[j].ret)
            /\ hist[j].ret.shape = hist[j - 1].arg.shape

\* t with every row repeated k times in place
Dup(t, k) ==
    Build(<<t.shape[1] * k>> \o Tail(t.shape),
          LAMBDA idx : At(t, <<idx[1] \div k>> \o Tail(idx)))

\* C4: an FC backward call on (X, dY) leaves the weights and bias that the
\* same call leaves on the batch with every row of X and dY repeated k times,
\* and dW and dB are the same for both batches.
BatchAveraging ==
    \A j \in 1..Len(hist) :
        (/\ hist[j].op = "backward"
         /\ KindOf(hist[j]) = "FC"
         /\ IsTensor(hist[j].ret))
        => \A k \in 1..MaxDup :
             /\ FCdW(Dup(hist[j].pre.input, k), Dup(hist[j].arg, k))
                  = FCdW(hist[j].pre.input, hist[j].arg)
             /\ FCdB(Dup(hist[j].arg, k)) = FCdB(hist[j].arg)
             /\ FCBackward([hist[j].pre EXCEPT !.input = Dup(hist[j].pre.input, k)],
                           Dup(hist[j].arg, k), hist[j].learning_rate).self.weights
                  = hist[j].post.weights
             /\ FCBackward([hist[j].pre EXCEPT !.input = Dup(hist[j].pre.input, k)],
                           Dup(hist[j].arg, k), hist[j].learning_rate).self.bias
                  = hist[j].post.bias

\* an FC backward call on a batch of two rows has changed weights and bias
BatchAveragingWitness ==
    /\ hist # <<>>
    /\ hist[Len(hist)].op = "backward"
    /\ KindOf(hist[Len(hist)]) = "FC"
    /\ IsTensor(hist[Len(hist)].ret)
    /\ hist[Len(hist)].arg.shape[1] = 2
    /\ hist[Len(hist)].post.weights # hist[Len(hist)].pre.weights
    /\ hist[Len(hist)].post.bias # hist[Len(hist)].pre.bias

\* C5: when a convolution's pad_h or pad_w is 0, the crop of line 193 has the
\* full unpadded extent, and a backward call that follows forward on a valid
\* input returns the gradient assembled from the crops.
CropKeepsFullExtent ==
    \A j \in 1..Len(hist) :
        (/\ PairedBackward(j)
         /\ KindOf(hist[j]) = "Conv"
         /\ (hist[j].pre.pad_h = 0 \/ hist[j].pre.pad_w = 0))
        => /\ Crop(pad_inputs(Zeros(hist[j].pre.A.shape),
                              <<hist[j].pre.pad_h, hist[j].pre.pad_w>>),
                   0, hist[j].pre.pad_h, hist[j].pre.pad_w).shape
                = Tail(hist[j].pre.A.shape)
           /\ IsTensor(hist[j].ret)

\* what forward call e on a convolution gives when made on a newly constructed
\* layer of e's configuration, with the initializer's values init
FreshForward(e, init) ==
    [ret |-> ConvInitialised(ConvInit(e.pre.filters, e.pre.kernel_shape,
                                      e.pre.padding, e.pre.stride),
                             e.arg, init).ret,
     W |-> init.W, b |-> init.b]

\* C6: the output of every forward call on a convolution is the output a
\* newly constructed layer of the same configuration gives on the same input
\* in the same generator state, and W and b after the call are the
\* initializer's values of that call.
ConvReinitEachForward ==
    \A j \in 1..Len(hist) :
        (hist[j].op = "forward" /\ KindOf(hist[j]) = "Conv" /\ Len(hist[j].arg.shape) = 4)
        => [ret |-> hist[j].ret, W |-> hist[j].post.W, b |-> hist[j].post.b]
             = FreshForward(hist[j],
                            glorot_uniform(<<hist[j].pre.kernel_shape[1],
                                             hist[j].pre.kernel_shape[2],
                                             hist[j].arg.shape[4], hist[j].pre.filters>>,
                                           hist[j].rng))

\* a forward call has returned on a convolution whose parameters an earlier
\* backward call had updated
ConvReinitWitness ==
    /\ Len(hist) = 3
    /\ KindOf(hist[3]) = "Conv"
    /\ hist[2].op = "backward" /\ hist[2].updates >= 1
    /\ hist[2].post.W # hist[2].pre.W
    /\ hist[3].op = "forward" /\ IsTensor(hist[3].ret)

\* the filter gradient that sample i alone contributes in a backward call from
\* layer state pre with output gradient dY
SampleGradient(pre, dY, i) ==
    Build(pre.W.shape,
          LAMBDA idx :
            SeqSum([q \in 1..(pre.A.shape[2] * pre.A.shape[3]) |->
                RMul(At(pad_inputs(pre.A, <<pre.pad_h, pre.pad_w>>),
                        <<i, pre.stride * ((q - 1) \div pre.A.shape[3]) + idx[1],
                          pre.stride * ((q - 1) % pre.A.shape[3]) + idx[2], idx[3]>>),
                     At(dY, <<i, (q - 1) \div pre.A.shape[3],
                              (q - 1) % pre.A.shape[3], idx[4]>>))]))

RECURSIVE TriangleSum(_, _, _)
\* the sum over i in 1..n of the sum over j in 1..i of sample j's gradient:
\* sample j (0-based i) is counted in the n - i updates from its own on
TriangleSum(pre, dY, i) ==
    IF i = pre.A.shape[1] THEN Zeros(pre.W.shape)
    ELSE TAdd(Scale(RInt(pre.A.shape[1] - i), SampleGradient(pre, dY, i)),
              TriangleSum(pre, dY, i + 1))

\* C7: a backward call on a convolution that holds a batch of n samples makes
\* n parameter updates, and leaves W = W_before - lr * sum_i sum_{j<=i} g_j.
ConvUpdatesPerSample ==
    \A j \in 1..Len(hist) :
        (PairedBackward(j) /\ KindOf(hist[j]) = "Conv")
        => /\ hist[j].updates = hist[j].pre.A.shape[1]
           /\ hist[j].post.W
                = TSub(hist[j].pre.W,
                       Scale(hist[j].learning_rate,
                             TriangleSum(hist[j].pre, hist[j].arg, 0)))

\* C7 for the calls that return: a backward call on a convolution that returns
\* the gradient has made one update per sample, with the accumulated gradients
ConvUpdatesWhenReturned ==
    \A j \in 1..Len(hist) :
        (PairedBackward(j) /\ KindOf(hist[j]) = "Conv" /\ IsTensor(hist[j].ret))
        => /\ hist[j].updates = hist[j].pre.A.shape[1]
           /\ hist[j].post.W
                = TSub(hist[j].pre.W,
                       Scale(hist[j].learning_rate,
                             TriangleSum(hist[j].pre, hist[j].arg, 0)))

\* the first call of the run of forward calls that ends just before call j
RECURSIVE RunStart(_)
RunStart(j) ==
    IF j > 1 /\ hist[j - 1].op = "forward" THEN RunStart(j - 1) ELSE j

\* what backward call j of hist would have left behind had only the last
\* forward call before it been made, on the layer as it was before the run of
\* forward calls
OnlyLastForward(j) ==
    LayerBackward(LayerForward(hist[RunStart(j - 1)].pre, hist[j - 1].arg,
                               hist[j - 1].rng).self,
                  hist[j].arg, hist[j].learning_rate)

\* C8: a backward call on an FC, ActivationLayer or Flatten that follows
\* forward calls returns what it returns after the last of them alone, and
\* leaves the parameters that it leaves after the last of them alone.
CachedInputOverwritten ==
    \A j \in 2..Len(hist) :
        (/\ hist[j].op = "backward"
         /\ hist[j - 1].op = "forward"
         /\ KindOf(hist[j]) \in {"FC", "Activation", "Flatten"})
        => /\ hist[j].pre.input = hist[j - 1].arg
           /\ hist[j].ret = OnlyLastForward(j).ret
           /\ KindOf(hist[j]) = "FC" =>
                /\ hist[j].post.weights = OnlyLastForward(j).self.weights
                /\ hist[j].post.bias = OnlyLastForward(j).self.bias

\* two forward calls on different inputs, then a backward call that returned
\* and changed the weights of an FC
CachedInputWitness ==
    /\ Len(hist) = 3
    /\ hist[1].op = "forward" /\ hist[2].op = "forward" /\ hist[3].op = "backward"
    /\ hist[1].arg # hist[2].arg
    /\ KindOf(hist[3]) = "FC"
    /\ IsTensor(hist[3].ret)
    /\ hist[3].post.weights # hist[3].pre.weights

\* ------------------------------------------------------------ convolution sweep
\* One convolution layer of any kernel, stride and padding mode, called once
\* on a single-sample, single-channel input of any spatial size.
ConvCtors ==
    {[kind |-> "Conv", filters |-> 1, kernel_shape |-> <<kh, kw>>,
      padding |-> p, stride |-> s] :
        kh \in 1..MaxKernel, kw \in 1..MaxKernel,
        p \in {"same", "valid"}, s \in 1..MaxStride}

InitConv ==
    /\ model = ModelInit("online")
    /\ rng = 0
    /\ python = 3
    /\ inputs = None
    /\ hist = <<>>

AddConv ==
    \E c \in ConvCtors : \E in_h \in 1..MaxIn, in_w \in 1..MaxIn :
        Add(c, 1, TwoInputs(<<1, in_h, in_w, 1>>))

ConvForwardCall ==
    /\ model.layers # <<>>
    /\ Forward(1, inputs.X1, 1)

NextConv == AddConv \/ ConvForwardCall

SpecConv == InitConv /\ [][NextConv]_vars

\* the output size the formula gives for one axis
FormulaOutDim(padding, in_dim, kernel_dim, s) ==
    IF padding = "same" THEN in_dim ELSE ((in_dim - kernel_dim) \div s) + 1

\* C3: the tensor a convolution's forward returns has shape (samples, out_h,
\* out_w, filters) with out_dim = floor((in_dim - kernel_dim) / s) + 1 and pad 0
\* for 'valid', and out_dim = in_dim for 'same'.
ConvOutputSize ==
    \A j \in 1..Len(hist) :
        (hist[j].op = "forward" /\ KindOf(hist[j]) = "Conv" /\ IsTensor(hist[j].ret))
        => /\ hist[j].ret.shape
                = <<hist[j].arg.shape[1],
                    FormulaOutDim(hist[j].pre.padding, hist[j].arg.shape[2],
                                  hist[j].pre.kernel_shape[1], hist[j].pre.stride),
                    FormulaOutDim(hist[j].pre.padding, hist[j].arg.shape[3],
                                  hist[j].pre.kernel_shape[2], hist[j].pre.stride),
                    hist[j].pre.filters>>
           /\ hist[j].pre.padding = "valid" =>
                hist[j].post.pad_h = 0 /\ hist[j].post.pad_w = 0

\* C10: for both padding modes, in_dim >= kernel_dim >= 1 and stride >= 1,
\* every window that forward reads ends inside the padded input, and so has
\* the kernel's shape kh x kw x channels.
ConvWindowsInside ==
    \A j \in 1..Len(hist) :
        (/\ hist[j].op = "forward" /\ KindOf(hist[j]) = "Conv"
         /\ hist[j].arg.shape[2] >= hist[j].pre.kernel_shape[1]
         /\ hist[j].arg.shape[3] >= hist[j].pre.kernel_shape[2]
         /\ hist[j].pre.kernel_shape[1] >= 1 /\ hist[j].pre.kernel_shape[2] >= 1
         /\ hist[j].pre.stride >= 1)
        => \A win \in Windows(ConvOutDim(hist[j].pre.padding, hist[j].arg.shape[2],
                                         hist[j].pre.stride, hist[j].pre.kernel_shape[1]),
                              ConvOutDim(hist[j].pre.padding, hist[j].arg.shape[3],
                                         hist[j].pre.stride, hist[j].pre.kernel_shape[2]),
                              hist[j].pre.stride,
                              hist[j].pre.kernel_shape[1], hist[j].pre.kernel_shape[2]) :
             /\ win[2] <= hist[j].arg.shape[2] + 2 * hist[j].post.pad_h
             /\ win[4] <= hist[j].arg.shape[3] + 2 * hist[j].post.pad_w
             /\ SliceShape(Tail(pad_inputs(hist[j].arg,
                                           <<hist[j].post.pad_h, hist[j].post.pad_w>>).shape),
                           win[1], win[2], win[3], win[4])
                  = <<hist[j].pre.kernel_shape[1], hist[j].pre.kernel_shape[2],
                      hist[j].arg.shape[4]>>

\* ------------------------------------------------------------ training
\* A model of up to MaxLayers layers, a loss, and one train call on one batch.
TrainCtors ==
    {[kind |-> "FC", input_size |-> 2, output_size |-> 2],
     [kind |-> "Activation", activation |-> "relu"],
     [kind |-> "Flatten"],
     [kind |-> "Conv", filters |-> 1, kernel_shape |-> <<3, 3>>,
      padding |-> "same", stride |-> 1]}

\* the batches (X, Y) the driver trains on
TrainInputs ==
    {[X |-> Pattern(<<2, 2>>, 0), Y |-> Pattern(<<2, 2>>, 1)],
     [X |-> Pattern(<<1, 3, 3, 1>>, 0), Y |-> Pattern(<<1, 3, 3, 1>>, 1)]}

InitTrain ==
    /\ model = ModelInit("online")
    /\ rng \in 0..(RngStates - 1)
    /\ python = 3
    /\ inputs \in TrainInputs
    /\ hist = <<>>

AddTrainLayer == \E c \in TrainCtors : Add(c, MaxLayers, inputs)

UseLoss == \E loss \in Losses : Use(loss)

CallTrain == Train(inputs.X, inputs.Y, LearningRate, 1)

NextTrain == AddTrainLayer \/ UseLoss \/ CallTrain

SpecTrain == InitTrain /\ [][NextTrain]_vars

\* what call q of the log of train call e must be: forward on layers 1..n in
\* order, then backward on layers n..1 in order, each on the value the call
\* before it returned, the first on X and the first backward on
\* loss_prime(Y, output of layer n)
ExpectedCall(e, q) ==
    IF q <= e.n
    THEN [op |-> "forward", layer |-> q,
          arg |-> IF q = 1 THEN e.X ELSE e.log[q - 1].ret]
    ELSE [op |-> "backward", layer |-> 2 * e.n + 1 - q,
          arg |-> IF q = e.n + 1 THEN LossPrime(e.loss.name, e.Y, e.log[e.n].ret)
                  ELSE e.log[q - 1].ret]

InitFit ==
    /\ model = ModelInit("batch")
    /\ rng \in 0..(RngStates - 1)
    /\ python \in {2, 3}
    /\ inputs = None
    /\ hist = <<>>

AddFitLayer ==
    \E samples \in 1..(batch_size + MaxExtra) :
        Add([kind |-> "FC", input_size |-> 1, output_size |-> 1], 1,
            [x_train |-> Full(<<samples, 1>>, 1), y_train |-> Zeros(<<samples, 1>>)])

UseFitLoss == Use("half_sse")

CallFit ==
    /\ model.layers # <<>>
    /\ \E epochs \in 1..MaxEpochs :
         Fit(inputs.x_train, inputs.y_train, epochs, RInt(1), 1)

NextFit == AddFitLayer \/ UseFitLoss \/ CallFit

SpecFit == InitFit /\ [][NextFit]_vars

\* the ranges <<begin_index, end_index>> fit call e handed to train in epoch i
RangesOfEpoch(e, i) ==
    {<<e.ranges[k][2], e.ranges[k][3]>> :
        k \in {k \in 1..Len(e.ranges) : e.ranges[k][1] = i}}

\* the number of train calls of epoch i of fit call e that sample s was part of
TimesTrained(e, i, s) ==
    Cardinality({k \in 1..Len(e.ranges) :
                    /\ e.ranges[k][1] = i
                    /\ e.ranges[k][2] <= s /\ s < e.ranges[k][3]})

\* C9: a 'batch' fit on any number of samples >= 1 completes, and in every
\* epoch the ranges [begin_index, end_index) handed to train partition
\* 0..samples-1: every sample is trained on exactly once and no batch is empty.
BatchRangesPartition ==
    \A j \in 1..Len(hist) :
        (/\ hist[j].op = "fit"
         /\ model.training_method = "batch"
         /\ ~IsNone(model.loss)
         /\ hist[j].samples >= 1)
        => /\ IsNone(hist[j].exc)
           /\ \A i \in 0..(hist[j].epochs - 1) :
                /\ \A s \in 0..(hist[j].samples - 1) : TimesTrained(hist[j], i, s) = 1
                /\ \A r \in RangesOfEpoch(hist[j], i) : r[1] < r[2]

====
